---- MODULE Spec2Model ----
(***************************************************************************)
(* Model of src/models/tree/build_tree.h (legate-boost): the BinaryTree    *)
(* index helpers, SelectHistogramNode, ComputeHistogramBin,                *)
(* CalculateLeafValue and the GPair operators.                             *)
(*                                                                         *)
(* All of them are pure functions.  The state is the last call made: the  *)
(* function called (op), its arguments (arg, the node_hessians buffer      *)
(* included for the two functions that take it) and what it returned       *)
(* (ret).  Undefined operations of the C++ code (signed overflow, a shift  *)
(* out of range, a buffer read outside its extent) take their outcome from *)
(* a Build record chosen nondeterministically by the calling action.       *)
(***************************************************************************)
EXTENDS Integers, FiniteSets, Sequences, TLC

VARIABLES op, arg, ret

vars == <<op, arg, ret>>

(************************* bounds of the model ****************************)
\* the node_hessians buffer has rows 0..MaxNode
MaxNode == 6
\* hessian sums stored in the buffer are 0..MaxHess
MaxHess == 1
\* negative node identifiers passed to the functions are -MaxNeg..-1
MaxNeg == 2
\* small level arguments are -1..MaxLevel
MaxLevel == 3
\* gradient sums of GPair values are -MaxGrad..MaxGrad
MaxGrad == 1
\* G arguments of CalculateLeafValue are -MaxG..MaxG (and 10)
MaxG == 2
\* H arguments of CalculateLeafValue are -1..MaxH
MaxH == 4
\* alpha arguments of CalculateLeafValue are 0..MaxAlpha
MaxAlpha == 1

(************************* the C++ int type *******************************)
IntMax == 2147483647
IntMin == -IntMax - 1
\* the largest level a 32-bit int shift 1 << level is defined for
MaxShift == 30

\* C++ integer division by a positive divisor truncates toward zero
TruncDiv(a, b) == IF a >= 0 THEN a \div b ELSE -((-a) \div b)

(************************* what undefined operations yield ****************)
Hess == 0..MaxHess
UBInts == {IntMin, -1, 1}
\* the doubles a read outside the buffer's extent yields
Garbage == {0, MaxHess}
\* ub:     the int a signed overflow or an out-of-range shift yields
\* gl, gr: what an out-of-extent read of the left / right child's row yields
\* trap:   whether the buffer accessor is built with bounds checks, so that an
\*         out-of-extent access aborts the call instead of reading
Build == [ub : UBInts, gl : Garbage, gr : Garbage, trap : BOOLEAN]

(************************* BinaryTree *************************************)
\* (i - 1) / 2 rounded down instead of toward zero
Parent_Floor(i, ub) == IF i = IntMin THEN ub ELSE (i - 1) \div 2

\* i / 2, the parent of a 1-based heap index
Parent_NoMinusOne(i, ub) == IF i = IntMin THEN ub ELSE TruncDiv(i, 2)

Parent(i, ub) == IF i = IntMin THEN ub ELSE TruncDiv(i - 1, 2)

LeftChild(i, ub) ==
  IF i > (IntMax - 1) \div 2 \/ i < -((IntMax - 1) \div 2) - 1 THEN ub ELSE 2 * i + 1

\* 2i + 3, one slot too far
RightChild_Plus3(i, ub) ==
  IF i > (IntMax - 3) \div 2 \/ i < -((IntMax - 1) \div 2) - 2 THEN ub ELSE 2 * i + 3

RightChild(i, ub) ==
  IF i > (IntMax - 2) \div 2 \/ i < -((IntMax - 1) \div 2) - 2 THEN ub ELSE 2 * i + 2

\* 1 << level, without the - 1
LevelBegin_NoMinusOne(level, ub) == IF level \in 0..MaxShift THEN 2 ^ level ELSE ub

LevelBegin(level, ub) == IF level \in 0..MaxShift THEN 2 ^ level - 1 ELSE ub

NodesInLevel(level, ub) == IF level \in 0..MaxShift THEN 2 ^ level ELSE ub

(************************* SelectHistogramNode ****************************)
\* node_hessians[{row, 0}]: the stored value inside the extent, whatever the
\* build yields outside it
ReadBuffer(node_hessians, row, garbage) ==
  IF row \in DOMAIN node_hessians THEN node_hessians[row] ELSE garbage

\* <= in place of <
SelectHistogramNode_LessEq(parent, node_hessians, b) ==
  LET left_child  == LeftChild(parent, b.ub)
      right_child == RightChild(parent, b.ub)
  IN  IF b.trap /\ ~({left_child, right_child} \subseteq DOMAIN node_hessians)
        THEN [fault |-> TRUE]
      ELSE IF ReadBuffer(node_hessians, left_child, b.gl)
                <= ReadBuffer(node_hessians, right_child, b.gr)
        THEN [fault |-> FALSE, reads |-> {left_child, right_child},
              histogram_node |-> left_child, subtract_node |-> right_child]
      ELSE [fault |-> FALSE, reads |-> {left_child, right_child},
            histogram_node |-> right_child, subtract_node |-> left_child]

\* > in place of <
SelectHistogramNode_Greater(parent, node_hessians, b) ==
  LET left_child  == LeftChild(parent, b.ub)
      right_child == RightChild(parent, b.ub)
  IN  IF b.trap /\ ~({left_child, right_child} \subseteq DOMAIN node_hessians)
        THEN [fault |-> TRUE]
      ELSE IF ReadBuffer(node_hessians, left_child, b.gl)
                > ReadBuffer(node_hessians, right_child, b.gr)
        THEN [fault |-> FALSE, reads |-> {left_child, right_child},
              histogram_node |-> left_child, subtract_node |-> right_child]
      ELSE [fault |-> FALSE, reads |-> {left_child, right_child},
            histogram_node |-> right_child, subtract_node |-> left_child]

SelectHistogramNode(parent, node_hessians, b) ==
  LET left_child  == LeftChild(parent, b.ub)
      right_child == RightChild(parent, b.ub)
  IN  IF b.trap /\ ~({left_child, right_child} \subseteq DOMAIN node_hessians)
        THEN [fault |-> TRUE]
      ELSE IF ReadBuffer(node_hessians, left_child, b.gl)
                < ReadBuffer(node_hessians, right_child, b.gr)
        THEN [fault |-> FALSE, reads |-> {left_child, right_child},
              histogram_node |-> left_child, subtract_node |-> right_child]
      ELSE [fault |-> FALSE, reads |-> {left_child, right_child},
            histogram_node |-> right_child, subtract_node |-> left_child]

(************************* ComputeHistogramBin ****************************)
\* without the node_id < 0 return
ComputeHistogramBin_NoNegCheck(node_id, depth, node_hessians, b) ==
  IF node_id = 0 THEN [fault |-> FALSE, reads |-> {}, value |-> TRUE]
  ELSE LET parent == Parent(node_id, b.ub)
           sel    == SelectHistogramNode(parent, node_hessians, b)
       IN  IF sel.fault THEN [fault |-> TRUE]
           ELSE [fault |-> FALSE, reads |-> sel.reads,
                 value |-> sel.histogram_node = node_id]

\* every node required at depth 0
ComputeHistogramBin_Depth(node_id, depth, node_hessians, b) ==
  IF node_id = 0 THEN [fault |-> FALSE, reads |-> {}, value |-> TRUE]
  ELSE IF node_id < 0 THEN [fault |-> FALSE, reads |-> {}, value |-> FALSE]
  ELSE LET parent == Parent(node_id, b.ub)
           sel    == SelectHistogramNode(parent, node_hessians, b)
       IN  IF sel.fault THEN [fault |-> TRUE]
           ELSE [fault |-> FALSE, reads |-> sel.reads,
                 value |-> (depth = 0 \/ sel.histogram_node = node_id)]

ComputeHistogramBin(node_id, depth, node_hessians, b) ==
  IF node_id = 0 THEN [fault |-> FALSE, reads |-> {}, value |-> TRUE]
  ELSE IF node_id < 0 THEN [fault |-> FALSE, reads |-> {}, value |-> FALSE]
  ELSE LET parent == Parent(node_id, b.ub)
           sel    == SelectHistogramNode(parent, node_hessians, b)
       IN  IF sel.fault THEN [fault |-> TRUE]
           ELSE [fault |-> FALSE, reads |-> sel.reads,
                 value |-> sel.histogram_node = node_id]

(************************* CalculateLeafValue *****************************)
Abs(x) == IF x < 0 THEN -x ELSE x

RECURSIVE GCD(_, _)
GCD(a, b) == IF b = 0 THEN a ELSE GCD(b, a % b)

IsPow2(n) == \E k \in 0..MaxShift : n = 2 ^ k

\* The quotient n / d of two doubles holding the integers n and d, d # 0: the
\* reduced fraction num / den.  It is a double exactly when den is a power of
\* two (exact); otherwise the double returned is num / den rounded.
Quotient(n, d) ==
  LET s == IF d < 0 THEN -1 ELSE 1
      g == GCD(Abs(n), Abs(d))
      q == Abs(d) \div g
  IN  [kind |-> "finite", num |-> (s * n) \div g, den |-> q, exact |-> IsPow2(q)]

\* IEEE division by zero: 0/0 is NaN, x/0 is an infinity of x's sign
DivDouble(n, d) ==
  IF d # 0 THEN Quotient(n, d)
  ELSE IF n = 0 THEN [kind |-> "nan"]
  ELSE IF n > 0 THEN [kind |-> "+inf"]
  ELSE [kind |-> "-inf"]

\* a unit added to the denominator
CalculateLeafValue_Eps(G, H, alpha) == DivDouble(-G, H + alpha + 1)

CalculateLeafValue(G, H, alpha) == DivDouble(-G, H + alpha)

(************************* GPair ******************************************)
\* a default-constructed GPair
GPairZero == [grad |-> 0, hess |-> 0]

\* GPair::operator+=, the new value of *this
GPairAddAssign(this, b) == [grad |-> this.grad + b.grad, hess |-> this.hess + b.hess]

\* the hessian left unsubtracted
GPairSub_GradOnly(a, b) == [grad |-> a.grad - b.grad, hess |-> a.hess]

\* operator-(const GPair&, const GPair&)
GPairSub(a, b) == [grad |-> a.grad - b.grad, hess |-> a.hess - b.hess]

\* operator+(const GPair&, const GPair&)
GPairAdd(a, b) == [grad |-> a.grad + b.grad, hess |-> a.hess + b.hess]

(************************* inputs *****************************************)
\* contents of a node_hessians buffer of MaxNode + 1 rows (column 0)
Tables == [0..MaxNode -> Hess]

\* node identifiers near the end of the int range
BigNodes == {(IntMax - 1) \div 2 - 1, (IntMax - 1) \div 2, IntMax}

\* node identifiers: absent (negative), inside the buffer, just beyond it, huge
NodeArgs == (-MaxNeg..(MaxNode + 2)) \cup BigNodes

\* node identifiers passed together with a buffer
BufferNodeArgs == (-MaxNeg..(MaxNode + 2)) \cup {(IntMax - 1) \div 2}

\* parents passed together with a buffer: their children lie inside the buffer,
\* or just beyond it, or beyond the int range
BufferParentArgs == (-MaxNeg..(MaxNode \div 2)) \cup {(IntMax - 1) \div 2}

LevelArgs == (-1..MaxLevel) \cup {MaxShift - 1, MaxShift, MaxShift + 1}

\* depth arguments: the root's and a deep level's
DepthArgs == {0, MaxLevel}

GPairs == [grad : -MaxGrad..MaxGrad, hess : Hess]

GArgs == (-MaxG..MaxG) \cup {10}

HArgs == -1..MaxH

AlphaArgs == 0..MaxAlpha

(************************* the state machine ******************************)
\* nothing has been called; a GPair is value-initialised to (0, 0)
Init ==
  /\ op = "idle"
  /\ arg = [none |-> TRUE]
  /\ ret = GPairZero

CallParent(i, b) ==
  /\ op = "idle"
  /\ op' = "Parent"
  /\ arg' = [i |-> i]
  /\ ret' = Parent(i, b.ub)

CallLeftChild(i, b) ==
  /\ op = "idle"
  /\ op' = "LeftChild"
  /\ arg' = [i |-> i]
  /\ ret' = LeftChild(i, b.ub)

CallRightChild(i, b) ==
  /\ op = "idle"
  /\ op' = "RightChild"
  /\ arg' = [i |-> i]
  /\ ret' = RightChild(i, b.ub)

CallLevelBegin(level, b) ==
  /\ op = "idle"
  /\ op' = "LevelBegin"
  /\ arg' = [level |-> level]
  /\ ret' = LevelBegin(level, b.ub)

CallNodesInLevel(level, b) ==
  /\ op = "idle"
  /\ op' = "NodesInLevel"
  /\ arg' = [level |-> level]
  /\ ret' = NodesInLevel(level, b.ub)

CallSelectHistogramNode(parent, node_hessians) ==
  /\ op = "idle"
  /\ op' = "SelectHistogramNode"
  /\ arg' = [parent |-> parent, node_hessians |-> node_hessians]
  /\ ret' \in {SelectHistogramNode(parent, node_hessians, b) : b \in Build}

CallComputeHistogramBin(node_id, depth, node_hessians) ==
  /\ op = "idle"
  /\ op' = "ComputeHistogramBin"
  /\ arg' = [node_id |-> node_id, depth |-> depth, node_hessians |-> node_hessians]
  /\ ret' \in {ComputeHistogramBin(node_id, depth, node_hessians, b) : b \in Build}

CallCalculateLeafValue(G, H, alpha) ==
  /\ op = "idle"
  /\ op' = "CalculateLeafValue"
  /\ arg' = [G |-> G, H |-> H, alpha |-> alpha]
  /\ ret' = CalculateLeafValue(G, H, alpha)

CallGPairAddAssign(a, b) ==
  /\ op = "idle"
  /\ op' = "GPairAddAssign"
  /\ arg' = [a |-> a, b |-> b]
  /\ ret' = GPairAddAssign(a, b)

CallGPairSub(a, b) ==
  /\ op = "idle"
  /\ op' = "GPairSub"
  /\ arg' = [a |-> a, b |-> b]
  /\ ret' = GPairSub(a, b)

CallGPairAdd(a, b) ==
  /\ op = "idle"
  /\ op' = "GPairAdd"
  /\ arg' = [a |-> a, b |-> b]
  /\ ret' = GPairAdd(a, b)

\* the call returns to its caller
Return ==
  /\ op # "idle"
  /\ op' = "idle"
  /\ arg' = [none |-> TRUE]
  /\ ret' = GPairZero

Next ==
  \/ op = "idle" /\ \E i \in NodeArgs, b \in Build : CallParent(i, b)
  \/ op = "idle" /\ \E i \in NodeArgs, b \in Build : CallLeftChild(i, b)
  \/ op = "idle" /\ \E i \in NodeArgs, b \in Build : CallRightChild(i, b)
  \/ op = "idle" /\ \E level \in LevelArgs, b \in Build : CallLevelBegin(level, b)
  \/ op = "idle" /\ \E level \in LevelArgs, b \in Build : CallNodesInLevel(level, b)
  \/ op = "idle" /\ \E parent \in BufferParentArgs, t \in Tables :
       CallSelectHistogramNode(parent, t)
  \/ op = "idle" /\ \E node_id \in BufferNodeArgs, depth \in DepthArgs, t \in Tables :
       CallComputeHistogramBin(node_id, depth, t)
  \/ op = "idle" /\ \E G \in GArgs, H \in HArgs, alpha \in AlphaArgs : CallCalculateLeafValue(G, H, alpha)
  \/ op = "idle" /\ \E a \in GPairs, b \in GPairs : CallGPairAddAssign(a, b)
  \/ op = "idle" /\ \E a \in GPairs, b \in GPairs : CallGPairSub(a, b)
  \/ op = "idle" /\ \E a \in GPairs, b \in GPairs : CallGPairAdd(a, b)
  \/ Return

Spec == Init /\ [][Next]_vars

(************************* helpers of the properties **********************)
\* both children of parent are rows of the buffer nh
ChildrenInBuffer(parent, nh) ==
  /\ parent >= 0
  /\ parent <= MaxNode
  /\ {2 * parent + 1, 2 * parent + 2} \subseteq DOMAIN nh

\* node i lies in the index range of level d
InLevel(i, d) ==
  /\ LevelBegin(d, 1) <= i
  /\ i < LevelBegin(d, 1) + NodesInLevel(d, 1)

LevelNodes(d) == LevelBegin(d, 1)..(LevelBegin(d, 1) + NodesInLevel(d, 1) - 1)

\* one build, for calls that perform no undefined operation: the calling
\* actions draw ret from every build, so a property comparing ret with a call
\* under FixedBuild covers them all
FixedBuild == [ub |-> 1, gl |-> 0, gr |-> 0, trap |-> TRUE]

\* the other child of n's parent, n > 0
Sibling(n) == IF n % 2 = 1 THEN n + 1 ELSE n - 1

(************************* C1 *********************************************)
\* C1 (as stated): when the two children of a parent p >= 0 have equal hessian
\* sums, SelectHistogramNode returns (LeftChild(p), RightChild(p)).
C1_TieLeftFirst ==
  (op = "SelectHistogramNode" /\ ChildrenInBuffer(arg.parent, arg.node_hessians)
     /\ arg.node_hessians[2 * arg.parent + 1] = arg.node_hessians[2 * arg.parent + 2])
  => (/\ ~ret.fault
      /\ ret.histogram_node = 2 * arg.parent + 1
      /\ ret.subtract_node = 2 * arg.parent + 2)

\* C1 (amended): when the two children of a parent p >= 0 have equal hessian
\* sums, SelectHistogramNode returns (RightChild(p), LeftChild(p)): the strict
\* comparison fails on a tie, so ties resolve right-first.
C1_TieRightFirst ==
  (op = "SelectHistogramNode" /\ ChildrenInBuffer(arg.parent, arg.node_hessians)
     /\ arg.node_hessians[2 * arg.parent + 1] = arg.node_hessians[2 * arg.parent + 2])
  => (/\ ~ret.fault
      /\ ret.histogram_node = 2 * arg.parent + 2
      /\ ret.subtract_node = 2 * arg.parent + 1)

C1_Witness ==
  /\ op = "SelectHistogramNode"
  /\ arg.parent = 1
  /\ arg.node_hessians[3] = 1 /\ arg.node_hessians[4] = 1
  /\ ~ret.fault
  /\ ret.histogram_node = 4 /\ ret.subtract_node = 3

(************************* C2 *********************************************)
\* C2: when the hessian sums of the two children of a parent p >= 0 differ,
\* histogram_node is the child with the strictly smaller sum and subtract_node
\* is the other child.
C2_SmallerChildSelected ==
  (op = "SelectHistogramNode" /\ ChildrenInBuffer(arg.parent, arg.node_hessians)
     /\ arg.node_hessians[2 * arg.parent + 1] # arg.node_hessians[2 * arg.parent + 2])
  => (/\ ~ret.fault
      /\ {ret.histogram_node, ret.subtract_node} = {2 * arg.parent + 1, 2 * arg.parent + 2}
      /\ ret.histogram_node # ret.subtract_node
      /\ arg.node_hessians[ret.histogram_node] < arg.node_hessians[ret.subtract_node])

C2_Witness ==
  /\ op = "SelectHistogramNode"
  /\ arg.parent = 2
  /\ arg.node_hessians[5] > arg.node_hessians[6]
  /\ ~ret.fault
  /\ ret.histogram_node = 6 /\ ret.subtract_node = 5

(************************* C3 *********************************************)
\* C3: for a parent p >= 0 whose children are rows of the table, for every
\* depth argument, exactly one of ComputeHistogramBin(LeftChild(p)) and
\* ComputeHistogramBin(RightChild(p)) is true, ties included, and the true one
\* is the histogram_node SelectHistogramNode(p) returned.
C3_ExactlyOneChildRequired ==
  (op = "SelectHistogramNode" /\ ChildrenInBuffer(arg.parent, arg.node_hessians))
  => /\ ~ret.fault
     /\ \A dl \in DepthArgs, dr \in DepthArgs :
          LET l  == 2 * arg.parent + 1
              r  == 2 * arg.parent + 2
              bl == ComputeHistogramBin(l, dl, arg.node_hessians, FixedBuild)
              br == ComputeHistogramBin(r, dr, arg.node_hessians, FixedBuild)
          IN  /\ ~bl.fault /\ ~br.fault
              /\ bl.value # br.value
              /\ bl.value <=> (ret.histogram_node = l)
              /\ br.value <=> (ret.histogram_node = r)

C3_Witness ==
  /\ op = "SelectHistogramNode"
  /\ arg.parent = 0
  /\ arg.node_hessians[1] = arg.node_hessians[2]
  /\ ~ret.fault
  /\ ~ComputeHistogramBin(1, 0, arg.node_hessians, FixedBuild).value
  /\ ComputeHistogramBin(2, MaxLevel, arg.node_hessians, FixedBuild).value

(************************* C4 *********************************************)
\* C4: ComputeHistogramBin returns true for node 0 and false for every
\* negative node, whatever the depth and the table, without reading the table.
C4_RootAndAbsentNodes ==
  (op = "ComputeHistogramBin" /\ arg.node_id <= 0)
  => (/\ ~ret.fault
      /\ ret.reads = {}
      /\ ret.value = (arg.node_id = 0))

C4_Witness ==
  /\ op = "ComputeHistogramBin"
  /\ arg.node_id = -1
  /\ arg.depth # 0
  /\ arg.node_hessians[0] = 1
  /\ ret.value = FALSE /\ ret.reads = {}

(************************* C5 *********************************************)
\* C5: operator- undoes operator+, (a + b) - b == a; and for a parent whose
\* total is L + R and a table holding the hessians of L and R, the parent's
\* total minus the histogram_node's pair is the subtract_node's pair, the two
\* selected nodes being the two distinct children.
C5_SubtractionRecoversSibling ==
  /\ op = "GPairAdd" =>
       (GPairSub(ret, arg.b) = arg.a /\ GPairSub(ret, arg.a) = arg.b)
  /\ (op = "SelectHistogramNode" /\ ChildrenInBuffer(arg.parent, arg.node_hessians)) =>
       LET l == 2 * arg.parent + 1
           r == 2 * arg.parent + 2
       IN  /\ ~ret.fault
           /\ {ret.histogram_node, ret.subtract_node} = {l, r}
           /\ ret.histogram_node # ret.subtract_node
           /\ \A gL \in -MaxGrad..MaxGrad, gR \in -MaxGrad..MaxGrad :
                LET L == [grad |-> gL, hess |-> arg.node_hessians[l]]
                    R == [grad |-> gR, hess |-> arg.node_hessians[r]]
                    P == GPairAdd(L, R)
                    pair(n) == IF n = l THEN L ELSE R
                IN  GPairSub(P, pair(ret.histogram_node)) = pair(ret.subtract_node)

C5_Witness ==
  /\ op = "SelectHistogramNode"
  /\ arg.parent = 0
  /\ arg.node_hessians[1] > arg.node_hessians[2]
  /\ ~ret.fault
  /\ ret.histogram_node = 2 /\ ret.subtract_node = 1
  /\ LET L == [grad |-> 1, hess |-> arg.node_hessians[1]]
         R == [grad |-> -1, hess |-> arg.node_hessians[2]]
     IN  GPairSub(GPairAdd(L, R), R) = L

(************************* C6 *********************************************)
\* C6: for every node i > 0 whose children fit a 32-bit int,
\* Parent(LeftChild(i)) = i and Parent(RightChild(i)) = i.
C6_ParentOfChild ==
  ((op = "LeftChild" \/ op = "RightChild") /\ arg.i > 0 /\ arg.i <= (IntMax - 2) \div 2)
  => \A ub \in UBInts : Parent(ret, ub) = arg.i

C6_Witness ==
  /\ op = "RightChild"
  /\ arg.i = (IntMax - 2) \div 2
  /\ ret = IntMax - 1
  /\ Parent(ret, 1) = arg.i

(************************* C7 *********************************************)
\* C7: LevelBegin(0) = 0; LevelBegin(level + 1) = LevelBegin(level) +
\* NodesInLevel(level) for every level whose successor is a defined shift; and
\* every node index 0 <= i < IntMax lies in the range of exactly one level.
C7_LevelsPartition ==
  /\ op = "LevelBegin" =>
       /\ arg.level = 0 => ret = 0
       /\ arg.level \in 0..(MaxShift - 1) =>
            \A ub \in UBInts :
              LevelBegin(arg.level + 1, ub) = ret + NodesInLevel(arg.level, ub)
  /\ (op = "Parent" /\ arg.i >= 0 /\ arg.i < IntMax) =>
       Cardinality({d \in 0..MaxShift : InLevel(arg.i, d)}) = 1

C7_Witness ==
  /\ op = "LevelBegin"
  /\ arg.level = 3
  /\ ret = 7
  /\ LevelBegin(arg.level + 1, 1) = 15
  /\ NodesInLevel(arg.level, 1) = 8

(************************* C8 *********************************************)
\* C8 (as stated): Parent called on the root or on a negative index returns no
\* node identifier, and SelectHistogramNode called with a negative parent
\* returns no pair of nodes (it reads no table entry).
C8_InvalidNodeRejected ==
  /\ ~(op = "Parent" /\ arg.i <= 0 /\ ret \in Int)
  /\ ~(op = "SelectHistogramNode" /\ arg.parent < 0 /\ ~ret.fault)

\* C8 (amended): no function rejects an invalid node.  Parent(i) for i <= 0
\* returns (i - 1) / 2 truncated toward zero (Parent(0) = 0, Parent(-1) = -1);
\* SelectHistogramNode with a negative parent p indexes the table at 2p+1 and
\* 2p+2 and, unless the buffer accessor aborts, returns these two nodes.
C8_InvalidNodeComputed ==
  /\ (op = "Parent" /\ arg.i <= 0 /\ arg.i >= -MaxNeg) =>
       /\ ret = -((1 - arg.i) \div 2)
       /\ arg.i = 0 => ret = 0
  /\ (op = "SelectHistogramNode" /\ arg.parent < 0 /\ arg.parent >= -MaxNeg /\ ~ret.fault) =>
       /\ {ret.histogram_node, ret.subtract_node} = {2 * arg.parent + 1, 2 * arg.parent + 2}
       /\ ret.reads = {2 * arg.parent + 1, 2 * arg.parent + 2}

C8_Witness ==
  /\ op = "SelectHistogramNode"
  /\ arg.parent = -1
  /\ ~ret.fault
  /\ ret.histogram_node = -1 /\ ret.subtract_node = 0
  /\ ret.reads = {-1, 0}

(************************* C9 *********************************************)
\* C9: with H + alpha # 0, CalculateLeafValue(G, H, alpha) is the quotient
\* -G / (H + alpha): result * (H + alpha) = -G, nothing is added to the
\* denominator; CalculateLeafValue(10, 4, 1) = -2; G = 0 gives 0; and every
\* call returns a double (finite, infinite or NaN), there is no error result.
C9_LeafValue ==
  op = "CalculateLeafValue" =>
    /\ ret.kind \in {"finite", "nan", "+inf", "-inf"}
    /\ (arg.H + arg.alpha # 0) =>
         /\ ret.kind = "finite"
         /\ ret.den > 0
         /\ ret.num * (arg.H + arg.alpha) = -arg.G * ret.den
         /\ GCD(Abs(ret.num), ret.den) = 1
         /\ arg.G = 0 => (ret.num = 0 /\ ret.exact)
         /\ ret.exact <=> IsPow2(ret.den)
    /\ (arg.G = 10 /\ arg.H = 4 /\ arg.alpha = 1) =>
         (ret.num = -2 /\ ret.den = 1 /\ ret.exact)

C9_Witness ==
  /\ op = "CalculateLeafValue"
  /\ arg.G = 10 /\ arg.H = 4 /\ arg.alpha = 1
  /\ ret = [kind |-> "finite", num |-> -2, den |-> 1, exact |-> TRUE]

(************************* C10 ********************************************)
\* C10: the children of every node of level d lie in level d + 1 and every
\* node of level d + 1 is the child of exactly one node of level d; hence for
\* a node n of level d >= 1 lying with its sibling in the table,
\* ComputeHistogramBin(n) reads exactly the entries of n and its sibling, which
\* is in level d too, its result does not depend on the depth argument, and of
\* a level d that lies in the table exactly NodesInLevel(d) / 2 nodes are
\* required.
C10_LevelConsistent ==
  /\ (op = "NodesInLevel" /\ arg.level \in 0..MaxLevel) =>
       /\ \A i \in LevelNodes(arg.level) :
            /\ InLevel(LeftChild(i, 1), arg.level + 1)
            /\ InLevel(RightChild(i, 1), arg.level + 1)
       /\ \A n \in LevelNodes(arg.level + 1) :
            Cardinality({i \in LevelNodes(arg.level) :
                           n \in {LeftChild(i, 1), RightChild(i, 1)}}) = 1
  /\ (op = "ComputeHistogramBin" /\ arg.node_id > 0
        /\ {arg.node_id, Sibling(arg.node_id)} \subseteq DOMAIN arg.node_hessians) =>
       LET n  == arg.node_id
           nh == arg.node_hessians
           d  == CHOOSE k \in 1..MaxShift : InLevel(n, k)
       IN  /\ ~ret.fault
           /\ ret.reads = {n, Sibling(n)}
           /\ InLevel(Sibling(n), d)
           /\ \A d2 \in DepthArgs : ComputeHistogramBin(n, d2, nh, FixedBuild) = ret
           /\ (n = LevelBegin(d, 1) /\ LevelNodes(d) \subseteq DOMAIN nh) =>
                Cardinality({m \in LevelNodes(d) :
                               ComputeHistogramBin(m, arg.depth, nh, FixedBuild).value})
                  = NodesInLevel(d, 1) \div 2

C10_Witness ==
  /\ op = "ComputeHistogramBin"
  /\ arg.node_id = 3
  /\ arg.depth = 0
  /\ arg.node_hessians[3] < arg.node_hessians[4]
  /\ ~ret.fault
  /\ ret.value /\ ret.reads = {3, 4}
  /\ Cardinality({m \in LevelNodes(2) :
                    ComputeHistogramBin(m, 0, arg.node_hessians, FixedBuild).value}) = 2

====
